---- MODULE Spec2Model ----
(***************************************************************************)
(* Model of backend/rocket/src/main.rs: six GET handlers returning fixed   *)
(* strings as Json<String>, mounted by rocket() under six mount bases and  *)
(* served by the Rocket router.                                            *)
(*                                                                         *)
(* A path is the sequence of its segments: "/" is << >>, "/todo/school" is *)
(* <<"todo", "school">>.  A request is its method, its path, the value of  *)
(* the _method field that opens its form body ("none" without one) and     *)
(* what its Accept header prefers.  A response is a record of status,      *)
(* Content-Type and body; the body is the text sent on the wire.           *)
(***************************************************************************)
EXTENDS Integers, Sequences, FiniteSets, TLC

VARIABLES phase, routes, conn, out, stamp, produced

vars == <<phase, routes, conn, out, stamp, produced>>

(***************************************************************************)
(* Bounds and input sets.                                                  *)
(***************************************************************************)
\* Number of requests the server answers in one run.
MaxReq == 3

\* The connections of the clients; requests on different connections are
\* in the server together.
Conns == {"c1", "c2"}

Methods == {"GET", "HEAD", "POST", "DELETE"}

\* First field of an application/x-www-form-urlencoded body: _method=GET,
\* _method=HEAD, or none (no form body, or another first field).
FormFields == {"none", "GET", "HEAD"}

\* What the Accept header prefers: JSON, or anything else.
Accepts == {"any", "json"}

\* The six paths of the #[get] attributes, the six paths after mounting,
\* and two paths that appear in neither.
RequestPaths ==
    { << >>,
      <<"todo">>, <<"todo", "school">>, <<"todo", "watch">>,
      <<"todo", "read">>, <<"todo", "make">>,
      <<"todo", "todo">>,
      <<"todo", "school", "todo", "school">>,
      <<"todo", "watch", "todo", "watch">>,
      <<"todo", "read", "todo", "read">>,
      <<"todo", "make", "todo", "make">>,
      <<"nonexistent">>, <<"todo", "xyz">> }

\* The requests sent.  A form body is sent with POST, the one method whose
\* body the server looks at.
Requests ==
    { r \in [method : Methods, path : RequestPaths,
             form : FormFields, accept : Accepts] :
          r.method # "POST" => r.form = "none" }

NoReq == [method |-> "none", path |-> << >>, form |-> "none", accept |-> "any"]

(***************************************************************************)
(* Result<Json<String>, Status> and its conversion to a response.          *)
(***************************************************************************)
Ok(s) == [tag |-> "Ok", json |-> s, status |-> 200]

Err(st) == [tag |-> "Err", json |-> "", status |-> st]

\* serde_json serialisation of a String that has no character to escape:
\* the text between double quotes.
JsonPlainText(s) == s

JsonString(s) == "\"" \o s \o "\""

\* Rocket's default catcher for an error status: a JSON object when the
\* request's Accept prefers JSON, an HTML page otherwise.
DefaultCatcher(st, accept) ==
    IF accept = "json"
    THEN [status |-> st, contentType |-> "application/json",
          body |-> "{\"error\": {..}}"]
    ELSE [status |-> st, contentType |-> "text/html",
          body |-> "<!DOCTYPE html>.."]

\* Responder of Result<Json<String>, Status>: Ok(Json(s)) is a 200 with the
\* JSON Content-Type and the serialised value, Err(status) goes to the catcher.
Respond(result, accept) ==
    IF result.tag = "Ok"
    THEN [status |-> 200, contentType |-> "application/json",
          body |-> JsonString(result.json)]
    ELSE DefaultCatcher(result.status, accept)

(***************************************************************************)
(* The handlers.                                                           *)
(***************************************************************************)
helloFails == Err(500)

hello == Ok("Rocket server is running")

todoHeader == Ok("Todo is working")

todoSchool == Ok("school todo sample")

\* A handler that shares a flag with the other requests: it answers
\* differently while or after another request is in the server.
todoWatchShared ==
    IF Cardinality({c \in Conns : conn[c] # NoReq}) > 1
    THEN Ok("to watch sample (busy)")
    ELSE Ok("to watch sample")

todoWatch == Ok("to watch sample")

\* A handler that keeps state across requests: it answers differently once
\* some request has been answered.
todoReadCounting ==
    IF produced > 0 THEN Ok("to read sample (again)")
    ELSE Ok("to read sample")

todoRead == Ok("to read sample")

todoMakeFails == Err(500)

todoMake == Ok("to make sample")

Call(h) ==
    CASE h = "hello" -> hello
      [] h = "todoHeader" -> todoHeader
      [] h = "todoSchool" -> todoSchool
      [] h = "todoWatch" -> todoWatch
      [] h = "todoRead" -> todoRead
      [] h = "todoMake" -> todoMake

(***************************************************************************)
(* Route registration: the #[get] attributes, routes! and mount.           *)
(***************************************************************************)
GetRoute(uri, h) == [method |-> "GET", uri |-> uri, handler |-> h]

\* routes![h]: the route the attribute of h declares.
RoutesOf(h) ==
    CASE h = "hello" -> {GetRoute(<< >>, h)}
      [] h = "todoHeader" -> {GetRoute(<<"todo">>, h)}
      [] h = "todoSchool" -> {GetRoute(<<"todo", "school">>, h)}
      [] h = "todoWatch" -> {GetRoute(<<"todo", "watch">>, h)}
      [] h = "todoRead" -> {GetRoute(<<"todo", "read">>, h)}
      [] h = "todoMake" -> {GetRoute(<<"todo", "make">>, h)}

HandlerNames ==
    {"hello", "todoHeader", "todoSchool", "todoWatch", "todoRead", "todoMake"}

\* mount that forgets the base.
mountNoBase(rts, base, rs) == rts \cup rs

\* Rocket::mount(base, routes): every route is served at base joined with
\* the route's own path.
mount(rts, base, rs) ==
    rts \cup {[r EXCEPT !.uri = base \o r.uri] : r \in rs}

build == {}

\* fn rocket(): the six mount calls.
rocket ==
    mount(mount(mount(mount(mount(mount(build,
        << >>, RoutesOf("hello")),
        <<"todo">>, RoutesOf("todoHeader")),
        <<"todo", "school">>, RoutesOf("todoSchool")),
        <<"todo", "watch">>, RoutesOf("todoWatch")),
        <<"todo", "read">>, RoutesOf("todoRead")),
        <<"todo", "make">>, RoutesOf("todoMake"))

\* Two distinct routes of the same method and path collide; Rocket refuses
\* to launch with colliding routes.
Collides(rts) ==
    \E r1, r2 \in rts : r1 # r2 /\ r1.method = r2.method /\ r1.uri = r2.uri

(***************************************************************************)
(* Request dispatch.                                                       *)
(***************************************************************************)
MatchesAnyMethod(r, m, p) == r.uri = p

\* A route matches a request of its method whose path is the route's path.
Matches(r, m, p) == r.method = m /\ r.uri = p

Matching(rts, m, p) == {r \in rts : Matches(r, m, p)}

\* The response of the matching route's handler (one route matches at most).
Route(rts, m, p, accept) ==
    Respond(Call((CHOOSE r \in Matching(rts, m, p) : TRUE).handler), accept)

StripBody(r) == [r EXCEPT !.body = ""]

\* Rocket reads a POST whose form body opens with _method=M as a request
\* of method M.
EffectiveMethod(r) ==
    IF r.method = "POST" /\ r.form # "none" THEN r.form ELSE r.method

\* Routing: the matching route answers; a HEAD request no route matches is
\* routed again as GET; a request nothing matches gets the default 404.
RouteAndProcess(rts, m, p, accept) ==
    IF Matching(rts, m, p) # {} THEN Route(rts, m, p, accept)
    ELSE IF m = "HEAD" /\ Matching(rts, "GET", p) # {}
         THEN Route(rts, "GET", p, accept)
         ELSE DefaultCatcher(404, accept)

\* Rocket's dispatch of a request: the method is settled, the request is
\* routed, and the response to a HEAD loses its body.
Dispatch(rts, r) ==
    LET m == EffectiveMethod(r)
        response == RouteAndProcess(rts, m, r.path, r.accept)
    IN  IF m = "HEAD" THEN StripBody(response) ELSE response

(***************************************************************************)
(* The server.                                                             *)
(***************************************************************************)
Init ==
    /\ phase = "built"
    /\ routes = build
    /\ conn = [c \in Conns |-> NoReq]
    /\ out = [c \in Conns |-> << >>]
    /\ stamp = [c \in Conns |-> 0]
    /\ produced = 0

\* #[launch] fn rocket(): the route table is built and the server starts.
Launch ==
    /\ phase = "built"
    /\ routes' = rocket
    /\ phase' = IF Collides(rocket) THEN "failed" ELSE "serving"
    /\ UNCHANGED <<conn, out, stamp, produced>>

\* Requests sent and not answered yet.
InFlight == {c \in Conns : conn[c] # NoReq /\ out[c] = << >>}

\* A client sends request r on its idle connection c.
Send(c, r) ==
    /\ phase = "serving"
    /\ conn[c] = NoReq
    /\ produced + Cardinality(InFlight) < MaxReq
    /\ conn' = [conn EXCEPT ![c] = r]
    /\ UNCHANGED <<phase, routes, out, stamp, produced>>

\* A worker serves the request of connection c.  stamp[c] is the rank of
\* the response among all the responses of the run.
Handle(c) ==
    /\ phase = "serving"
    /\ c \in InFlight
    /\ out' = [out EXCEPT ![c] = Append(@, Dispatch(routes, conn[c]))]
    /\ produced' = produced + 1
    /\ stamp' = [stamp EXCEPT ![c] = produced + 1]
    /\ UNCHANGED <<phase, routes, conn>>

\* The client of connection c has read its response; the connection is
\* idle again.
Receive(c) ==
    /\ out[c] # << >>
    /\ conn' = [conn EXCEPT ![c] = NoReq]
    /\ out' = [out EXCEPT ![c] = << >>]
    /\ stamp' = [stamp EXCEPT ![c] = 0]
    /\ UNCHANGED <<phase, routes, produced>>

Next ==
    \/ Launch
    \/ \E c \in Conns, r \in Requests : Send(c, r)
    \/ \E c \in Conns : Handle(c)
    \/ \E c \in Conns : Receive(c)

Spec == Init /\ [][Next]_vars

\* Every request in flight is served.
FairSpec == Spec /\ \A c \in Conns : WF_vars(Handle(c))

(***************************************************************************)
(* Vocabulary of the properties.                                           *)
(***************************************************************************)
Answered(c) == out[c] # << >>

Response(c) == out[c][1]

IsGet(r, p) == r.method = "GET" /\ r.path = p

JsonType == "application/json"

\* The route table of the interface description: path and response string.
DocumentedTable ==
    { << << >>, "Rocket server is running" >>,
      << <<"todo">>, "Todo is working" >>,
      << <<"todo", "school">>, "school todo sample" >>,
      << <<"todo", "watch">>, "to watch sample" >>,
      << <<"todo", "read">>, "to read sample" >>,
      << <<"todo", "make">>, "to make sample" >> }

DocumentedPaths == {e[1] : e \in DocumentedTable}

\* Mount base joined with attribute path, and the handler's string.
EffectiveTable ==
    { << << >>, "Rocket server is running" >>,
      << <<"todo", "todo">>, "Todo is working" >>,
      << <<"todo", "school", "todo", "school">>, "school todo sample" >>,
      << <<"todo", "watch", "todo", "watch">>, "to watch sample" >>,
      << <<"todo", "read", "todo", "read">>, "to read sample" >>,
      << <<"todo", "make", "todo", "make">>, "to make sample" >> }

EffectivePaths == {e[1] : e \in EffectiveTable}

\* The wire text of a JSON string value whose characters need no escape.
Quoted(s) == "\"" \o s \o "\""

HandlerBodies == {Quoted(e[2]) : e \in DocumentedTable}

\* A 200 whose body is the JSON string s.
IsOkJson(r, s) ==
    r.status = 200 /\ r.contentType = JsonType /\ r.body = Quoted(s)

\* The request is read as a GET: sent as GET, or a POST whose form body
\* opens with _method=GET.
ReadAsGet(r) == r.method = "GET" \/ (r.method = "POST" /\ r.form = "GET")

\* The request is read as a HEAD.
ReadAsHead(r) == r.method = "HEAD" \/ (r.method = "POST" /\ r.form = "HEAD")

\* The response a request gets when it is the only request ever sent.
Alone(r) ==
    LET served == (ReadAsGet(r) \/ ReadAsHead(r)) /\ r.path \in EffectivePaths
        s == (CHOOSE e \in EffectiveTable : e[1] = r.path)[2]
    IN  [status |-> IF served THEN 200 ELSE 404,
         contentType |->
             IF served \/ r.accept = "json" THEN JsonType ELSE "text/html",
         body |->
             IF ReadAsHead(r) THEN ""
             ELSE IF served THEN Quoted(s)
             ELSE IF r.accept = "json" THEN "{\"error\": {..}}"
             ELSE "<!DOCTYPE html>.."]

(***************************************************************************)
(* C1. After launch, GET / is answered 200 with the JSON string            *)
(* "Rocket server is running".                                             *)
(***************************************************************************)
C1_RootRunning ==
    \A c \in Conns :
        Answered(c) /\ IsGet(conn[c], << >>)
            => IsOkJson(Response(c), "Rocket server is running")

C1_Witness == \E c \in Conns : Answered(c) /\ IsGet(conn[c], << >>)

(***************************************************************************)
(* C2. After launch, GET /todo is answered 200 with the JSON string        *)
(* "Todo is working".                                                      *)
(***************************************************************************)
C2_TodoWorking ==
    \A c \in Conns :
        Answered(c) /\ IsGet(conn[c], <<"todo">>)
            => /\ Response(c).status = 200
               /\ Response(c).body = Quoted("Todo is working")

(***************************************************************************)
(* C3. After launch, GET on /todo/school, /todo/watch, /todo/read and      *)
(* /todo/make is answered 200 with the JSON strings "school todo sample",  *)
(* "to watch sample", "to read sample" and "to make sample".               *)
(***************************************************************************)
C3_TodoLists ==
    \A c \in Conns : \A e \in DocumentedTable :
        Answered(c) /\ Len(e[1]) = 2 /\ IsGet(conn[c], e[1])
            => /\ Response(c).status = 200
               /\ Response(c).body = Quoted(e[2])

(***************************************************************************)
(* C4. A request for a path that is not one of the six documented paths    *)
(* is answered 404 and gets no handler's string.                           *)
(***************************************************************************)
C4_UndocumentedIs404 ==
    \A c \in Conns :
        Answered(c) /\ conn[c].path \notin DocumentedPaths
            => /\ Response(c).status = 404
               /\ Response(c).body \notin HandlerBodies

(***************************************************************************)
(* C5. Handlers are stateless: two requests of the same method and path    *)
(* get the same status and body whatever was served before or between      *)
(* them, and no request changes the route table.                           *)
(***************************************************************************)
C5_SameMethodAndPath ==
    /\ \A c, d \in Conns :
           /\ Answered(c) /\ Answered(d)
           /\ conn[c].method = conn[d].method
           /\ conn[c].path = conn[d].path
           => /\ Response(c).status = Response(d).status
              /\ Response(c).body = Response(d).body
    /\ phase = "serving" => {r.uri : r \in routes} = EffectivePaths

\* C5 as amended: two requests of the same method, path, _method form
\* field and Accept preference get the same status and body whatever was
\* served before or between them, and no request changes the route table.
C5_Stateless ==
    /\ \A c, d \in Conns :
           Answered(c) /\ Answered(d) /\ conn[c] = conn[d]
               => /\ Response(c).status = Response(d).status
                  /\ Response(c).body = Response(d).body
    /\ phase = "serving" =>
           /\ {r.uri : r \in routes} = EffectivePaths
           /\ Cardinality(routes) = 6

\* The same request got the first and the third response of the run: the
\* response of another request lies between them.
C5_Witness ==
    \E c, d \in Conns :
        /\ c # d
        /\ Answered(c) /\ Answered(d)
        /\ IsGet(conn[c], <<"todo", "read", "todo", "read">>)
        /\ conn[d] = conn[c]
        /\ stamp[c] = 1 /\ stamp[d] = 3
        /\ Response(c).status = 200

(***************************************************************************)
(* C6. Every response with status 200 has Content-Type application/json    *)
(* and a body that is one bare JSON string, a handler's literal between    *)
(* double quotes.                                                          *)
(***************************************************************************)
C6_Every200IsJsonString ==
    \A c \in Conns :
        Answered(c) /\ Response(c).status = 200
            => /\ Response(c).contentType = JsonType
               /\ Response(c).body \in HandlerBodies

\* C6 as amended: every 200 has Content-Type application/json; the body of
\* a 200 answering a GET (or a request read as GET) is a handler's literal
\* between double quotes, and the body of a 200 answering a HEAD (or a
\* request read as HEAD) is empty.
C6_Get200IsJsonString ==
    \A c \in Conns :
        Answered(c) /\ Response(c).status = 200
            => /\ Response(c).contentType = JsonType
               /\ ReadAsGet(conn[c]) \/ ReadAsHead(conn[c])
               /\ ReadAsGet(conn[c]) => Response(c).body \in HandlerBodies
               /\ ReadAsHead(conn[c]) => Response(c).body = ""

C6_Witness ==
    \E c, d \in Conns :
        /\ Answered(c) /\ Answered(d)
        /\ conn[c].method = "GET" /\ Response(c).status = 200
        /\ conn[d].method = "HEAD" /\ Response(d).status = 200

(***************************************************************************)
(* C7. No handler takes its error branch: every invocation returns Ok, so  *)
(* every response has status 200 or 404 and no other status is produced.   *)
(***************************************************************************)
C7_OnlyOkOr404 ==
    /\ \A h \in HandlerNames : Call(h).tag = "Ok"
    /\ \A c \in Conns :
           Answered(c) =>
               /\ Response(c).status \in {200, 404}
               /\ Response(c).status = 200
                      <=> /\ conn[c].path \in EffectivePaths
                          /\ ReadAsGet(conn[c]) \/ ReadAsHead(conn[c])

C7_Witness ==
    \E c, d \in Conns :
        /\ Answered(c) /\ Answered(d)
        /\ IsGet(conn[c], <<"todo", "make", "todo", "make">>)
        /\ Response(c).status = 200
        /\ Response(d).status = 404

(***************************************************************************)
(* C8. Handlers are bound to GET only: a request of any other method to a  *)
(* path with a registered GET handler does not invoke the handler and is   *)
(* answered not-found, not 200.                                            *)
(***************************************************************************)
C8_OtherMethodsNotFound ==
    \A c \in Conns :
        /\ Answered(c)
        /\ conn[c].method # "GET"
        /\ conn[c].path \in {r.uri : r \in routes}
        => /\ Response(c).status = 404
           /\ Response(c).body \notin HandlerBodies

\* C8 as amended: a request of any method other than GET and HEAD, that is
\* not a POST whose form body opens with _method=GET or _method=HEAD, to a
\* path with a registered GET handler is answered not-found, not 200.
C8_NotReadAsGetNotFound ==
    \A c \in Conns :
        /\ Answered(c)
        /\ conn[c].method \notin {"GET", "HEAD"}
        /\ ~(conn[c].method = "POST" /\ conn[c].form \in {"GET", "HEAD"})
        /\ conn[c].path \in {r.uri : r \in routes}
        => /\ Response(c).status = 404
           /\ Response(c).body \notin HandlerBodies

C8_Witness ==
    \E c, d \in Conns :
        /\ Answered(c) /\ Answered(d)
        /\ conn[c].method = "POST" /\ conn[c].form = "none"
        /\ conn[c].path = << >>
        /\ conn[d].method = "DELETE" /\ conn[d].path = <<"todo", "todo">>

(***************************************************************************)
(* C9. Requests in flight together, served in any interleaving, each get   *)
(* exactly one response in the end, and it is the response the request     *)
(* would get if it were the only request ever sent.                        *)
(***************************************************************************)
\* A request stays on its connection until its response is read, so "every
\* request sent is answered in the end" is: again and again, all the
\* requests on the connections have their one response.
C9_Independent ==
    /\ []<>(\A c \in Conns : conn[c] # NoReq => out[c] = <<Alone(conn[c])>>)
    /\ [][\A c \in Conns :
             Answered(c) => out'[c] = out[c] \/ (out'[c] = << >> /\ conn'[c] = NoReq)]_vars
    /\ [](\A c \in Conns : Answered(c) => out[c] = <<Alone(conn[c])>>)

\* A request has its response while another request is still in flight.
C9_Witness ==
    \E c, d \in Conns :
        /\ c # d
        /\ IsGet(conn[c], <<"todo", "watch", "todo", "watch">>)
        /\ out[c] = <<Alone(conn[c])>>
        /\ conn[d].method = "POST"
        /\ d \in InFlight

(***************************************************************************)
(* C10. A handler is served at its mount base joined with its attribute    *)
(* path: launch registers exactly six GET routes, at /, /todo/todo,        *)
(* /todo/school/todo/school, /todo/watch/todo/watch, /todo/read/todo/read  *)
(* and /todo/make/todo/make; the six paths are pairwise distinct, at most  *)
(* one handler matches a request, and GET on each returns 200 with that    *)
(* handler's string.                                                       *)
(***************************************************************************)
C10_MountedPaths ==
    phase # "built" =>
        /\ phase = "serving"
        /\ Cardinality(routes) = 6
        /\ \A r \in routes : r.method = "GET"
        /\ {r.uri : r \in routes} = EffectivePaths
        /\ Cardinality(EffectivePaths) = 6
        /\ \A m \in Methods, p \in RequestPaths :
               Cardinality(Matching(routes, m, p)) <= 1
        /\ \A c \in Conns : \A e \in EffectiveTable :
               Answered(c) /\ IsGet(conn[c], e[1])
                   => IsOkJson(Response(c), e[2])

C10_Witness ==
    \E c, d \in Conns :
        /\ Answered(c) /\ Answered(d)
        /\ IsGet(conn[c], <<"todo", "todo">>)
        /\ IsGet(conn[d], <<"todo", "school", "todo", "school">>)
        /\ Response(c).status = 200

====
